---- MODULE Spec2Model ----
(***************************************************************************)
(* The contact-submission pipeline of the portfolio server: validation,    *)
(* persistence, sender acquisition (with the cached transporter of         *)
(* utils/email.js), the two notification sends and the response, for the   *)
(* four POST /api/contact handlers of the repository:                      *)
(*   "routes"  routes/contactRoutes.js   router.post('/')                  *)
(*   "server"  server.js                 app.post('/api/contact')          *)
(*   "api"     api/contact.js            handler                           *)
(*   "ctrl"    the contact controller    submitContact                     *)
(* Requests are handled one after another; an operation the handler has    *)
(* stopped waiting for (its timer fired) stays pending and settles later,  *)
(* concurrently with the requests that follow.                             *)
(*                                                                         *)
(* The admin endpoints (the listing and the mark-read of server.js, of the *)
(* router behind authMiddleware and of adminController.js) act on the same *)
(* collection; each is one step, and its response is read before the next  *)
(* operation starts.                                                       *)
(*                                                                         *)
(* A text field is abstracted to its trimmed length and the width of the   *)
(* white space around it; an email to whether it has the shape the         *)
(* validators accept and whether it holds upper-case letters.              *)
(***************************************************************************)
EXTENDS Integers, Sequences, FiniteSets, TLC

\* ---------------------------------------------------------------- bounds
\* Requests under Spec and SpecLive (MaxReq) and under SpecRoutes (the
\* routes handler, one valid body); clock steps; the clock at start.
MaxReq == 1
MaxRouteReq == 2
MaxTicks == 2
\* Under SpecAdmin: the submissions, and the records the collection may hold
\* when the server starts.
MaxAdminReq == 2
MaxBacklog == 51
StartTime == 1000000

\* ------------------------------------------------------ program constants
NameMin == 2
NameMax == 50
MsgMin == 10
MsgMax == 1000
TRANSPORTER_CACHE_TIME == 300000
SaveTimeoutMs == 5000
AcquireTimeoutMs == 5000
SendTimeoutMs == 10000
CreateTimeoutMs == 15000
ListLimit == 50

\* ------------------------------------------------------- response texts
TxtFull == "Message sent successfully!"
TxtPartial == "Message received! One email notification was sent successfully."
TxtNoEmail == "Message received! We saved your message but email notifications failed."
TxtUnavailable == "Message received! We saved your message but email notifications are temporarily unavailable."
TxtValidation == "Validation failed"
TxtServerFailed == "Failed to send message. Please try again later."
TxtNameShort == "Name must be at least 2 characters"
TxtEmailBad == "Invalid email address"
TxtMsgShort == "Message must be at least 10 characters"
TxtDbConnect == "Database connection failed"
TxtNoCreds == "Email credentials are missing"
TxtStoreError == "<message of the store's error>"
TxtMailError == "<message of the mail transport's error>"
TxtInternal == "Internal server error"
TxtTypeError == "nodemailer.createTransporter is not a function"

Variants == {"routes", "server", "api", "ctrl"}
Fields == {"name", "email", "message"}
Largest(a, b) == IF a > b THEN a ELSE b
Reqs == 1..Largest(MaxReq, Largest(MaxRouteReq, MaxAdminReq))

\* ------------------------------------------------------------- the inputs
\* A text of len characters between pad white-space characters on each side.
Text(len, pad) == [len |-> len, pad |-> pad]

\* The boundary cases of each field, taken at the lower bounds (short texts,
\* nothing to normalize) and at the upper bounds (long texts inside white
\* space, an email with upper-case letters); the invalid value of a field is
\* the one just outside the bound.
Names(hi) ==
  IF hi THEN { Text(NameMax, 1), Text(NameMax + 1, 0) }
  ELSE { Text(NameMin - 1, 1), Text(NameMin, 0) }

Messages(hi) ==
  IF hi THEN { Text(MsgMax, 1), Text(MsgMax + 1, 0) }
  ELSE { Text(MsgMin - 1, 1), Text(MsgMin, 0) }

Emails(hi) == { [ok |-> FALSE, upper |-> hi], [ok |-> TRUE, upper |-> hi] }

Bodies ==
  UNION { [name : Names(hi), email : Emails(hi), message : Messages(hi)] : hi \in BOOLEAN }

\* ----------------------------------------------- sanitizers and validators
\* String.prototype.trim / the validators' trim(): the white space goes.
Trim(t) == [t EXCEPT !.pad = 0]

\* The length a length check sees.
Length(t) == t.len + 2 * t.pad

\* normalizeEmail() and the schema's lowercase: true.
Lowercase(e) == [e EXCEPT !.upper = FALSE]

\* isLength({ min, max })
IsLength(t, min, max) == Length(t) >= min /\ Length(t) <= max

\* The validation chains of routes/contactRoutes.js (the same in server.js and
\* the controller): the sanitized body they leave in req.body.
Sanitize(body) ==
  [name |-> Trim(body.name),
   email |-> IF body.email.ok THEN Lowercase(body.email) ELSE body.email,
   message |-> Trim(body.message)]

\* ... and the fields validationResult(req) reports, all of them at once.
ChainErrors(body) ==
  { f \in Fields :
      \/ f = "name" /\ ~IsLength(Trim(body.name), NameMin, NameMax)
      \/ f = "email" /\ ~body.email.ok
      \/ f = "message" /\ ~IsLength(Trim(body.message), MsgMin, MsgMax) }

\* The checks of api/contact.js, the first failing one returns: lower bounds
\* only, on the trimmed text; the body is left as it was submitted.
ApiErrors(body) ==
  IF Length(Trim(body.name)) < NameMin THEN {"name"}
  ELSE IF ~body.email.ok THEN {"email"}
  ELSE IF Length(Trim(body.message)) < MsgMin THEN {"message"}
  ELSE {}

ApiErrorText(errs) ==
  IF "name" \in errs THEN TxtNameShort
  ELSE IF "email" \in errs THEN TxtEmailBad
  ELSE TxtMsgShort

\* The schema without lowercase: true on the email.
SchemaCastKeepsCase(body, id, t) ==
  [id |-> id,
   name |-> Trim(body.name),
   email |-> body.email,
   message |-> Trim(body.message),
   createdAt |-> t,
   isRead |-> FALSE]

\* contactSchema: the document a save() writes (trim, lowercase, defaults).
SchemaCast(body, id, t) ==
  [id |-> id,
   name |-> Trim(body.name),
   email |-> Lowercase(body.email),
   message |-> Trim(body.message),
   createdAt |-> t,
   isRead |-> FALSE]

\* ------------------------------------------------------------------ state
VARIABLES
  env,                     \* process.env: production mode, mail credentials set
  now,                     \* Date.now()
  ticks,                   \* the clock steps taken
  cachedTransporter,       \* utils/email.js: the cached handle, 0 for null
  lastTransporterCreation, \* utils/email.js: when it was cached
  store,                   \* the Contact collection, in insertion order
  saveOp,                  \* per request: its contactMessage.save()
  acqOp,                   \* per request: its transporter construction + verify
  dbConnected,             \* api/contact.js: cachedConnection is set
  nextReq,                 \* the next request's number
  cur,                     \* the request being handled, or the last one handled
  adm                      \* the admin response on its way to the client

vars ==
  <<env, now, ticks, cachedTransporter, lastTransporterCreation,
    store, saveOp, acqOp, dbConnected, nextReq, cur, adm>>

NoBody ==
  [name |-> Text(0, 0), email |-> [ok |-> FALSE, upper |-> FALSE], message |-> Text(0, 0)]

NoDoc == SchemaCast(NoBody, 0, 0)

\* The request's locals; nSave, nAcq, nAdmin and nAuto count its calls of
\* save(), createTransporter() and the two sendMail.
Idle ==
  [id |-> 0, variant |-> "routes", raw |-> NoBody, body |-> NoBody, errors |-> {},
   pc |-> "idle", saved |-> "none", acq |-> "none", transporter |-> 0,
   admin |-> "none", auto |-> "none", resp |-> <<>>,
   nSave |-> 0, nAcq |-> 0, nAdmin |-> 0, nAuto |-> 0]

\* req.params.id: whether it casts to an ObjectId, and the document it names.
NoPath == [ok |-> FALSE, id |-> 0]

NoAdmin ==
  [op |-> "none", route |-> "server", token |-> "none", path |-> NoPath,
   status |-> 0, list |-> <<>>]

Init ==
  /\ env \in [production : BOOLEAN, creds : BOOLEAN]
  /\ now = StartTime
  /\ ticks = 0
  /\ cachedTransporter = 0
  /\ lastTransporterCreation = 0
  /\ store = <<>>
  /\ saveOp = [r \in Reqs |-> [st |-> "none", doc |-> NoDoc]]
  /\ acqOp = [r \in Reqs |-> "none"]
  /\ dbConnected = FALSE
  /\ nextReq = 1
  /\ cur = Idle
  /\ adm = NoAdmin

\* --------------------------------------------------------------- responses
Response(status, success, error, message, details) ==
  [status |-> status, success |-> success, error |-> error, message |-> message,
   details |-> details]

\* res.status(..).json(..) followed by the handler's return.
Respond(q, r) == [q EXCEPT !.resp = Append(@, r), !.pc = "done"]

Accept(text) == Response(200, "true", "", text, {})

cache == <<cachedTransporter, lastTransporterCreation>>

\* ------------------------------------------- routes/contactRoutes.js: sends
\* Both sendMail calls are started before either is awaited.
StartSends(q) ==
  [q EXCEPT !.pc = "send", !.admin = "pending", !.auto = "pending",
            !.nAdmin = @ + 1, !.nAuto = @ + 1]

\* emailsSent: the settled results with status 'fulfilled'.
EmailsSent(q) ==
  (IF q.admin = "fulfilled" THEN 1 ELSE 0) + (IF q.auto = "fulfilled" THEN 1 ELSE 0)

\* The full-success text as soon as one email went out.
RoutesComposeAnySent(q) ==
  IF EmailsSent(q) >= 1 THEN Accept(TxtFull) ELSE Accept(TxtNoEmail)

\* The response chosen once Promise.allSettled has both results.
RoutesCompose(q) ==
  IF EmailsSent(q) = 2 THEN Accept(TxtFull)
  ELSE IF EmailsSent(q) = 1 THEN Accept(TxtPartial)
  ELSE Accept(TxtNoEmail)

\* The catch without its return: the handler goes on to the sends.
RoutesNoTransporterGoesOn(q, why) == StartSends([q EXCEPT !.acq = why])

\* The catch answering without return: the handler answers and goes on to
\* the sends, which answer again.
RoutesNoTransporterFallsThrough(q, why) ==
  StartSends([q EXCEPT !.acq = why, !.resp = Append(@, Accept(TxtUnavailable))])

\* The catch around the transporter's creation.
RoutesNoTransporter(q, why) == Respond([q EXCEPT !.acq = why], Accept(TxtUnavailable))

\* ------------------------------------------ utils/email.js: createTransporter
\* The cache test without the age.
CacheValidNoExpiry == cachedTransporter # 0

\* The cache test at the head of createTransporter.
CacheValid ==
  /\ cachedTransporter # 0
  /\ (now - lastTransporterCreation) < TRANSPORTER_CACHE_TIME

\* The production branch throws before anything is constructed.
CredentialsMissing == env.production /\ ~env.creds

\* After a successful race: the handle is cached with the time of caching.
CacheStore(h) ==
  /\ cachedTransporter' = h
  /\ lastTransporterCreation' = now

\* A catch that rethrows and leaves the cache as it is.
CacheKeep == UNCHANGED <<cachedTransporter, lastTransporterCreation>>

\* The catch of createTransporter.
CacheClear ==
  /\ cachedTransporter' = 0
  /\ lastTransporterCreation' = 0

\* The handler calls createTransporter() and races it against its own timer.
\* A cached handle or a synchronous throw settles the race at once.
RoutesAcquire(q) ==
  IF CacheValid
  THEN /\ cur' = StartSends([q EXCEPT !.acq = "cached", !.transporter = cachedTransporter])
       /\ UNCHANGED <<cache, acqOp>>
  ELSE IF CredentialsMissing
  THEN /\ CacheClear
       /\ cur' = RoutesNoTransporter(q, "failed")
       /\ UNCHANGED acqOp
  ELSE /\ acqOp' = [acqOp EXCEPT ![q.id] = "pending"]
       /\ cur' = [q EXCEPT !.pc = "acquire"]
       /\ UNCHANGED cache

\* ------------------------------ server.js, api/contact.js, the controller
\* The outer catch of the three handlers: server.js and the controller answer
\* with a fixed text, api/contact.js with the caught error's message.
CatchAll(q, errorMessage) ==
  IF q.variant = "api"
  THEN Respond(q, Response(500, "false",
                          IF errorMessage = "" THEN TxtInternal ELSE errorMessage, "", {}))
  ELSE Respond(q, Response(500, "absent", TxtServerFailed, "", {}))

\* The first of the two awaited sendMail calls.
SendAdminFirst(q, h) ==
  [q EXCEPT !.acq = "ok", !.transporter = h, !.pc = "sendAdmin", !.admin = "pending",
            !.nAdmin = @ + 1]

\* server.js: createTransporter calls nodemailer.createTransporter, which
\* nodemailer does not export (it exports createTransport): a TypeError,
\* thrown outside the try around the sends.
ServerAcquire(q) ==
  /\ cur' = CatchAll([q EXCEPT !.acq = "failed"], TxtTypeError)
  /\ UNCHANGED <<cache, acqOp>>

\* api/contact.js: its own createTransporter, no cache and no verify.
ApiAcquire(q) ==
  IF ~env.creds
  THEN /\ cur' = CatchAll([q EXCEPT !.acq = "failed"], TxtNoCreds)
       /\ UNCHANGED <<cache, acqOp>>
  ELSE IF env.production
  THEN /\ cur' = SendAdminFirst(q, q.id)
       /\ UNCHANGED <<cache, acqOp>>
  ELSE /\ acqOp' = [acqOp EXCEPT ![q.id] = "pending"]
       /\ cur' = [q EXCEPT !.pc = "acquire"]
       /\ UNCHANGED cache

\* The controller: createTransporter of config/mailer, awaited.
CtrlAcquire(q) ==
  /\ acqOp' = [acqOp EXCEPT ![q.id] = "pending"]
  /\ cur' = [q EXCEPT !.pc = "acquire"]
  /\ UNCHANGED cache

\* ------------------------------------------- the step after the save stage
\* q.saved holds what the handler learned: "ok", "rejected" or "timeout".
\* Only routes/contactRoutes.js catches a failed save and goes on.
\* The handler's call of createTransporter(), counted.
Acquiring(q) == [q EXCEPT !.nAcq = @ + 1]

\* A handler that saves a second time when the first save failed.
AfterSaveRetries(q) ==
  IF q.saved # "ok" /\ q.nSave < 2
  THEN /\ cur' = [q EXCEPT !.saved = "none", !.nSave = @ + 1]
       /\ UNCHANGED <<cache, acqOp>>
  ELSE RoutesAcquire(Acquiring(q))

AfterSave(q) ==
  IF q.variant = "routes" THEN RoutesAcquire(Acquiring(q))
  ELSE IF q.saved # "ok"
  THEN /\ cur' = CatchAll(q, TxtStoreError)
       /\ UNCHANGED <<cache, acqOp>>
  ELSE IF q.variant = "server" THEN ServerAcquire(Acquiring(q))
  ELSE IF q.variant = "api" THEN ApiAcquire(Acquiring(q))
  ELSE CtrlAcquire(Acquiring(q))

\* new Contact({ name, email, message }) and the start of its save().
StartSave(q) ==
  /\ saveOp' = [saveOp EXCEPT ![q.id] = [st |-> "pending", doc |-> SchemaCast(q.body, q.id, now)]]
  /\ cur' = [q EXCEPT !.pc = "save", !.nSave = @ + 1]

\* ---------------------------------------------------------------- actions
\* A POST /api/contact arrives: the validators run, then the handler up to
\* its first await.
Submit(v, raw) ==
  /\ cur.pc \in {"idle", "done"}
  /\ nextReq' = nextReq + 1
  /\ LET errs == IF v = "api" THEN ApiErrors(raw) ELSE ChainErrors(raw)
         q == [Idle EXCEPT !.id = nextReq, !.variant = v, !.raw = raw,
                           !.body = IF v = "api" THEN raw ELSE Sanitize(raw),
                           !.errors = errs]
     IN  IF errs # {}
         THEN /\ cur' = Respond(q,
                   IF v = "api" THEN Response(400, "false", ApiErrorText(errs), "", {})
                   ELSE Response(400, IF v = "routes" THEN "false" ELSE "absent",
                                 TxtValidation, "", errs))
              /\ UNCHANGED saveOp
         ELSE IF v = "api" /\ ~dbConnected
         THEN /\ cur' = [q EXCEPT !.pc = "connect"]
              /\ UNCHANGED saveOp
         ELSE StartSave(q)
  /\ UNCHANGED <<env, adm, now, ticks, cache, store, acqOp, dbConnected>>

\* api/contact.js: mongoose.connect settles.
ConnectSettles(ok) ==
  /\ cur.pc = "connect"
  /\ IF ok
     THEN /\ dbConnected' = TRUE
          /\ StartSave(cur)
     ELSE /\ cur' = CatchAll(cur, TxtDbConnect)
          /\ UNCHANGED <<dbConnected, saveOp>>
  /\ UNCHANGED <<env, adm, now, ticks, cache, store, acqOp, nextReq>>

Awaited(r, pc) == cur.id = r /\ cur.pc = pc

SamePayload(d, e) == d.name = e.name /\ d.email = e.email /\ d.message = e.message

\* A save() that leaves the collection alone when it holds the payload.
InsertUnlessPresent(s, doc) ==
  IF \E i \in 1..Len(s) : SamePayload(s[i], doc) THEN s ELSE Append(s, doc)

\* The collection after a save() of doc: one more document, whatever the
\* collection holds.
Insert(s, doc) == Append(s, doc)

\* A save whose document is dropped when the handler has stopped waiting.
SaveResolvesDiscardsLate(r) ==
  /\ saveOp[r].st = "pending"
  /\ store' = IF Awaited(r, "save") THEN Insert(store, saveOp[r].doc) ELSE store
  /\ saveOp' = [saveOp EXCEPT ![r] = [st |-> "stored", doc |-> NoDoc]]
  /\ IF Awaited(r, "save")
     THEN AfterSave([cur EXCEPT !.saved = "ok"])
     ELSE UNCHANGED <<cur, cache, acqOp>>
  /\ UNCHANGED <<env, adm, now, ticks, dbConnected, nextReq>>

\* The store accepts request r's document; the handler goes on if it is
\* still waiting for it.
SaveResolves(r) ==
  /\ saveOp[r].st = "pending"
  /\ store' = Insert(store, saveOp[r].doc)
  /\ saveOp' = [saveOp EXCEPT ![r] = [st |-> "stored", doc |-> NoDoc]]
  /\ IF Awaited(r, "save")
     THEN AfterSave([cur EXCEPT !.saved = "ok"])
     ELSE UNCHANGED <<cur, cache, acqOp>>
  /\ UNCHANGED <<env, adm, now, ticks, dbConnected, nextReq>>

\* The store rejects it.
SaveRejects(r) ==
  /\ saveOp[r].st = "pending"
  /\ saveOp' = [saveOp EXCEPT ![r] = [st |-> "rejected", doc |-> NoDoc]]
  /\ IF Awaited(r, "save")
     THEN AfterSave([cur EXCEPT !.saved = "rejected"])
     ELSE UNCHANGED <<cur, cache, acqOp>>
  /\ UNCHANGED <<env, adm, now, ticks, store, dbConnected, nextReq>>

\* A save() that is awaited with no timer beside it.
SaveTimerNeverFires == FALSE /\ UNCHANGED vars

\* routes/contactRoutes.js: the 5 s timer beside save() fires first. The
\* save itself is not cancelled.
SaveTimeout ==
  /\ cur.variant = "routes"
  /\ cur.pc = "save"
  /\ AfterSave([cur EXCEPT !.saved = "timeout"])
  /\ UNCHANGED <<env, adm, now, ticks, store, saveOp, dbConnected, nextReq>>

\* Request r's pending construction is a call of utils/email.js (the routes
\* handler's), and not one of the uncached createTransporter functions.
UtilsCall(r) == ~(cur.id = r /\ cur.variant # "routes")

\* The construction and verify of request r's transporter succeed.
\* utils/email.js caches the handle; the waiting handler goes on to the sends.
AcqSucceeds(r) ==
  /\ acqOp[r] = "pending"
  /\ acqOp' = [acqOp EXCEPT ![r] = "verified"]
  /\ IF UtilsCall(r) THEN CacheStore(r) ELSE UNCHANGED cache
  /\ cur' = IF ~Awaited(r, "acquire") THEN cur
            ELSE IF cur.variant = "routes"
            THEN StartSends([cur EXCEPT !.acq = "ok", !.transporter = r])
            ELSE SendAdminFirst(cur, r)
  /\ UNCHANGED <<env, adm, now, ticks, store, saveOp, dbConnected, nextReq>>

\* They fail: utils/email.js clears the cache and rethrows.
AcqFails(r) ==
  /\ acqOp[r] = "pending"
  /\ acqOp' = [acqOp EXCEPT ![r] = "failed"]
  /\ IF UtilsCall(r) THEN CacheClear ELSE UNCHANGED cache
  /\ cur' = IF ~Awaited(r, "acquire") THEN cur
            ELSE IF cur.variant = "routes"
            THEN RoutesNoTransporter(cur, "failed")
            ELSE CatchAll([cur EXCEPT !.acq = "failed"], TxtMailError)
  /\ UNCHANGED <<env, adm, now, ticks, store, saveOp, dbConnected, nextReq>>

\* utils/email.js: the 15 s timer of createTransporter fires first. The
\* handler's own 5 s timer, started with it, has fired by then.
AcqCreateTimeout(r) ==
  /\ acqOp[r] = "pending"
  /\ UtilsCall(r)
  /\ AcquireTimeoutMs < CreateTimeoutMs => ~Awaited(r, "acquire")
  /\ acqOp' = [acqOp EXCEPT ![r] = "failed"]
  /\ CacheClear
  /\ UNCHANGED <<env, adm, now, ticks, store, saveOp, dbConnected, nextReq, cur>>

\* routes/contactRoutes.js: the 5 s timer beside createTransporter() fires
\* first. The call itself goes on.
AcqRouteTimeout ==
  /\ cur.variant = "routes"
  /\ cur.pc = "acquire"
  /\ cur' = RoutesNoTransporter(cur, "timeout")
  /\ UNCHANGED <<env, adm, now, ticks, cache, store, saveOp, acqOp, dbConnected, nextReq>>

\* What Promise.allSettled reports of a raced sendMail: 'rejected' when the
\* send failed and when its 10 s timer fired first.
Settled(outcome) == IF outcome = "ok" THEN "fulfilled" ELSE "rejected"

\* routes/contactRoutes.js: one of the two raced sendMail calls settles; the
\* second to settle resolves Promise.allSettled and the response is composed.
SendSettles(k, outcome) ==
  /\ cur.variant = "routes"
  /\ cur.pc = "send"
  /\ cur[k] = "pending"
  /\ LET q == [cur EXCEPT ![k] = Settled(outcome)]
     IN  cur' = IF q.admin # "pending" /\ q.auto # "pending"
                THEN Respond(q, RoutesCompose(q))
                ELSE q
  /\ UNCHANGED <<env, adm, now, ticks, cache, store, saveOp, acqOp, dbConnected, nextReq>>

\* api/contact.js and the controller: the awaited admin sendMail settles; the
\* auto-reply is sent after it, and a failure goes to the outer catch.
AdminSendSettles(ok) ==
  /\ cur.pc = "sendAdmin"
  /\ cur' = IF ok
            THEN [cur EXCEPT !.admin = "fulfilled", !.auto = "pending", !.pc = "sendAuto",
                             !.nAuto = @ + 1]
            ELSE CatchAll([cur EXCEPT !.admin = "rejected"], TxtMailError)
  /\ UNCHANGED <<env, adm, now, ticks, cache, store, saveOp, acqOp, dbConnected, nextReq>>

\* ... then the awaited auto-reply sendMail.
AutoSendSettles(ok) ==
  /\ cur.pc = "sendAuto"
  /\ cur' = IF ok
            THEN Respond([cur EXCEPT !.auto = "fulfilled"], Accept(TxtFull))
            ELSE CatchAll([cur EXCEPT !.auto = "rejected"], TxtMailError)
  /\ UNCHANGED <<env, adm, now, ticks, cache, store, saveOp, acqOp, dbConnected, nextReq>>

\* Every wait that is raced against a timer ends when the timer fires, at
\* the latest: no such wait lasts d milliseconds or more.
WaitsEndWithin(d) ==
  /\ cur.variant = "routes" /\ cur.pc = "save" => d < SaveTimeoutMs
  /\ cur.variant = "routes" /\ cur.pc = "acquire" => d < AcquireTimeoutMs
  /\ cur.variant = "routes" /\ cur.pc = "send" => d < SendTimeoutMs
  /\ \A r \in Reqs : acqOp[r] = "pending" /\ UtilsCall(r) => d < CreateTimeoutMs

\* Time passes.
Tick(d) ==
  /\ ticks < MaxTicks
  /\ WaitsEndWithin(d)
  /\ ticks' = ticks + 1
  /\ now' = now + d
  /\ UNCHANGED <<env, adm, cache, store, saveOp, acqOp, dbConnected, nextReq, cur>>

Steps == {TRANSPORTER_CACHE_TIME - 1, TRANSPORTER_CACHE_TIME}
SendOutcomes == {"ok", "failed", "timeout"}

Next ==
  \/ nextReq <= MaxReq /\ \E v \in Variants, raw \in Bodies : Submit(v, raw)
  \/ \E ok \in BOOLEAN : ConnectSettles(ok)
  \/ \E r \in Reqs : SaveResolves(r)
  \/ \E r \in Reqs : SaveRejects(r)
  \/ SaveTimeout
  \/ \E r \in Reqs : AcqSucceeds(r)
  \/ \E r \in Reqs : AcqFails(r)
  \/ \E r \in Reqs : AcqCreateTimeout(r)
  \/ AcqRouteTimeout
  \/ \E k \in {"admin", "auto"}, o \in SendOutcomes : SendSettles(k, o)
  \/ \E ok \in BOOLEAN : AdminSendSettles(ok)
  \/ \E ok \in BOOLEAN : AutoSendSettles(ok)
  \/ \E d \in Steps : Tick(d)

Spec == Init /\ [][Next]_vars

\* The routes handler alone, fed one valid submission after another: the
\* transporter cache of utils/email.js across requests.
RouteBody ==
  [name |-> Text(NameMax, 1), email |-> [ok |-> TRUE, upper |-> TRUE],
   message |-> Text(MsgMax, 1)]

NextRoutes ==
  \/ nextReq <= MaxRouteReq /\ Submit("routes", RouteBody)
  \/ \E r \in Reqs : SaveResolves(r)
  \/ \E r \in Reqs : SaveRejects(r)
  \/ SaveTimeout
  \/ \E r \in Reqs : AcqSucceeds(r)
  \/ \E r \in Reqs : AcqFails(r)
  \/ \E r \in Reqs : AcqCreateTimeout(r)
  \/ AcqRouteTimeout
  \/ \E k \in {"admin", "auto"}, o \in SendOutcomes : SendSettles(k, o)
  \/ \E d \in Steps : Tick(d)

SpecRoutes == Init /\ [][NextRoutes]_vars

\* The routes handler with its timers: a timer that was started fires unless
\* the operation beside it settles first (setTimeout on the event loop).
\* Nothing makes the store or the mail transport answer.
NextLive ==
  \/ nextReq <= MaxReq /\ Submit("routes", RouteBody)
  \/ \E r \in Reqs : SaveResolves(r)
  \/ \E r \in Reqs : SaveRejects(r)
  \/ SaveTimeout
  \/ \E r \in Reqs : AcqSucceeds(r)
  \/ \E r \in Reqs : AcqFails(r)
  \/ \E r \in Reqs : AcqCreateTimeout(r)
  \/ AcqRouteTimeout
  \/ \E k \in {"admin", "auto"}, o \in SendOutcomes : SendSettles(k, o)
  \/ \E d \in Steps : Tick(d)

SpecLive ==
  /\ Init
  /\ [][NextLive]_vars
  /\ WF_vars(SaveTimeout)
  /\ WF_vars(AcqRouteTimeout)
  /\ WF_vars(SendSettles("admin", "timeout"))
  /\ WF_vars(SendSettles("auto", "timeout"))

\* ---------------------------------------------------- the admin endpoints
\* "server"  server.js                   app.get / app.patch, no middleware
\* "router"  middleware/authMiddleware.js router.get / router.patch behind auth
\* "ctrl"    controllers/adminController.js  getMessages / markAsRead
AdminRoutes == {"server", "router", "ctrl"}

\* The Authorization header: absent or not a Bearer one, a Bearer token that
\* jwt.verify rejects, a Bearer token it accepts.
Tokens == {"none", "invalid", "valid"}

\* authMiddleware: the status it answers with, 0 when it calls next().
AuthStatus(token) ==
  IF token = "none" THEN 401 ELSE IF token = "invalid" THEN 403 ELSE 0

\* The routes that are mounted behind authMiddleware.
Gated(route) == route = "router"

Refused(route, token) == Gated(route) /\ AuthStatus(token) # 0

AdminResponse(op, route, token, path, status, list) ==
  [op |-> op, route |-> route, token |-> token, path |-> path,
   status |-> status, list |-> list]

\* sort({ createdAt: -1 }); documents of one createdAt come out in their
\* natural order or against it.
NewestFirst(s, natural) ==
  IF natural
  THEN SortSeq(s, LAMBDA a, b : a.createdAt > b.createdAt)
  ELSE SortSeq(s, LAMBDA a, b : a.createdAt >= b.createdAt)

\* limit(n)
Limit(s, n) == IF Len(s) > n THEN SubSeq(s, 1, n) ELSE s

\* The query of the listing: the router's has no limit.
Listing(route, natural) ==
  IF route = "router" THEN NewestFirst(store, natural)
  ELSE Limit(NewestFirst(store, natural), ListLimit)

\* GET .../messages
ListMessages(route, token, dbOk, natural) ==
  /\ adm = NoAdmin
  /\ adm' = IF Refused(route, token)
            THEN AdminResponse("list", route, token, NoPath, AuthStatus(token), <<>>)
            ELSE IF ~dbOk
            THEN AdminResponse("list", route, token, NoPath, 500, <<>>)
            ELSE AdminResponse("list", route, token, NoPath, 200, Listing(route, natural))
  /\ UNCHANGED <<env, now, ticks, cache, store, saveOp, acqOp, dbConnected, nextReq, cur>>

\* The update of findByIdAndUpdate that also stamps the document.
MarkUpdateStamps(doc) == [doc EXCEPT !.isRead = TRUE, !.createdAt = now]

\* The update of findByIdAndUpdate that flips the flag.
MarkUpdateToggles(doc) == [doc EXCEPT !.isRead = ~@]

\* { isRead: true }
MarkUpdate(doc) == [doc EXCEPT !.isRead = TRUE]

Found(id) == \E i \in 1..Len(store) : store[i].id = id

\* PATCH .../messages/:id/read. An id that does not cast to an ObjectId makes
\* findByIdAndUpdate reject, as a failing store does: the catch answers 500.
MarkRead(route, token, path, dbOk) ==
  /\ adm = NoAdmin
  /\ IF Refused(route, token)
     THEN /\ adm' = AdminResponse("mark", route, token, path, AuthStatus(token), <<>>)
          /\ UNCHANGED store
     ELSE IF ~path.ok \/ ~dbOk
     THEN /\ adm' = AdminResponse("mark", route, token, path, 500, <<>>)
          /\ UNCHANGED store
     ELSE IF ~Found(path.id)
     THEN /\ adm' = AdminResponse("mark", route, token, path, 404, <<>>)
          /\ UNCHANGED store
     ELSE /\ adm' = AdminResponse("mark", route, token, path, 200, <<>>)
          /\ store' = [i \in 1..Len(store) |->
                         IF store[i].id = path.id THEN MarkUpdate(store[i]) ELSE store[i]]
  /\ UNCHANGED <<env, now, ticks, cache, saveOp, acqOp, dbConnected, nextReq, cur>>

\* The client has the response.
AdminDelivered ==
  /\ adm # NoAdmin
  /\ adm' = NoAdmin
  /\ UNCHANGED <<env, now, ticks, cache, store, saveOp, acqOp, dbConnected, nextReq, cur>>

\* The collection as an earlier run of the server left it: n documents of
\* one short submission, the oldest first.
BacklogId(i) == 0 - i

OldBody ==
  [name |-> Text(NameMin, 0), email |-> [ok |-> TRUE, upper |-> FALSE],
   message |-> Text(MsgMin, 0)]

Backlog(n) ==
  [i \in 1..n |-> SchemaCast(OldBody, BacklogId(i), StartTime - (n + 1 - i))]

\* The ids a PATCH may name: the documents of this run, the newest of the
\* earlier ones, one that was never created, and one that is no ObjectId.
UnknownId == 0

Paths ==
  { [ok |-> TRUE, id |-> i] : i \in Reqs \cup {BacklogId(MaxBacklog), UnknownId} }
    \cup { NoPath }

InitAdmin ==
  /\ env = [production |-> FALSE, creds |-> TRUE]
  /\ now = StartTime
  /\ ticks = 0
  /\ cachedTransporter = 0
  /\ lastTransporterCreation = 0
  /\ store \in { Backlog(n) : n \in {0, MaxBacklog} }
  /\ saveOp = [r \in Reqs |-> [st |-> "none", doc |-> NoDoc]]
  /\ acqOp = [r \in Reqs |-> "none"]
  /\ dbConnected = FALSE
  /\ nextReq = 1
  /\ cur = Idle
  /\ adm = NoAdmin

\* Between two admin requests, the submissions of server.js go on and time
\* passes.
Quiet == adm = NoAdmin

NextAdmin ==
  \/ Quiet /\ nextReq <= MaxAdminReq /\ Submit("server", RouteBody)
  \/ Quiet /\ \E r \in Reqs : SaveResolves(r)
  \/ Quiet /\ \E r \in Reqs : SaveRejects(r)
  \/ Quiet /\ Tick(TRANSPORTER_CACHE_TIME)
  \/ \E route \in AdminRoutes, token \in Tokens, dbOk \in BOOLEAN, natural \in BOOLEAN :
       ListMessages(route, token, dbOk, natural)
  \/ \E route \in AdminRoutes, token \in Tokens, path \in Paths, dbOk \in BOOLEAN :
       MarkRead(route, token, path, dbOk)
  \/ AdminDelivered

SpecAdmin == InitAdmin /\ [][NextAdmin]_vars

\* ================================================================ claims
\* What the claims speak of, read off the state.
Handled == cur.id # 0
Done == cur.pc = "done"
Status(n) == Len(cur.resp) = 1 /\ cur.resp[1].status = n
Accepted(text) == cur.resp = <<Accept(text)>>
SaveFailed == cur.saved \in {"rejected", "timeout"}
SenderAcquired == cur.acq \in {"cached", "ok"}
SenderUnavailable == cur.acq \in {"failed", "timeout"}
NoSendAttempted == cur.admin = "none" /\ cur.auto = "none"
BothSendsAttempted == cur.admin # "none" /\ cur.auto # "none"
RecordsOf(r) == { i \in 1..Len(store) : store[i].id = r }

\* The bounds of the data model, on the text as trimmed.
OutOfBounds(raw) ==
  \/ raw.name.len < 2 \/ raw.name.len > 50
  \/ ~raw.email.ok
  \/ raw.message.len < 10 \/ raw.message.len > 1000

\* C1: a submission with a field out of bounds is answered with 400 and has
\* no side effect: no save is started, createTransporter is not called and
\* no mail is sent (routes/contactRoutes.js and api/contact.js).
C1_InvalidRejectedNoSideEffect ==
  Handled /\ cur.variant \in {"routes", "api"} /\ OutOfBounds(cur.raw) =>
    /\ Done => Status(400)
    /\ saveOp[cur.id].st = "none"
    /\ cur.acq = "none" /\ acqOp[cur.id] = "none"
    /\ NoSendAttempted

\* C2: a submission that passed validation is answered with 200 and
\* success:true, whatever fails after it (routes/contactRoutes.js, server.js
\* and api/contact.js).
C2_ValidAlwaysAccepted ==
  Done /\ cur.variant \in {"routes", "server", "api"} /\ cur.errors = {} =>
    Status(200) /\ cur.resp[1].success = "true"

\* The acceptance texts of routes/contactRoutes.js that say the message was
\* saved, and those that tell of a storage problem: none of the four does.
SaysSaved(text) == text \in {TxtNoEmail, TxtUnavailable}
DisclosesStorageIssue(text) == text \notin {TxtFull, TxtPartial, TxtNoEmail, TxtUnavailable}

\* C3: when the save failed or timed out, the 200 response of
\* routes/contactRoutes.js tells that the record may not have been saved, and
\* never says that it was saved.
C3_StorageFailureDisclosed ==
  Done /\ cur.variant = "routes" /\ SaveFailed =>
    /\ Status(200)
    /\ DisclosesStorageIssue(cur.resp[1].message)
    /\ ~SaysSaved(cur.resp[1].message)

\* C4: a failed or timed out save does not suppress notification: the sender
\* is still asked for, and once acquired both sends are attempted
\* (routes/contactRoutes.js and server.js).
C4_SaveFailureKeepsNotification ==
  Done /\ cur.variant \in {"routes", "server"} /\ SaveFailed =>
    /\ cur.acq # "none"
    /\ SenderAcquired => BothSendsAttempted

\* C5: once a sender is acquired both sends are attempted, whatever becomes of
\* the other one (routes/contactRoutes.js, server.js and the controller).
C5_SendsIndependent ==
  Done /\ cur.variant \in {"routes", "server", "ctrl"} /\ SenderAcquired =>
    BothSendsAttempted

\* The submission as the data model stores it: trimmed, the email in lower
\* case, not read yet.
HoldsSubmission(doc, raw) ==
  /\ doc.name = [len |-> raw.name.len, pad |-> 0]
  /\ doc.email = [ok |-> TRUE, upper |-> FALSE]
  /\ doc.message = [len |-> raw.message.len, pad |-> 0]
  /\ doc.isRead = FALSE

OneRecordStored == Cardinality(RecordsOf(cur.id)) = 1
BothSent == cur.admin = "fulfilled" /\ cur.auto = "fulfilled"
OneSent ==
  \/ cur.admin = "fulfilled" /\ cur.auto = "rejected"
  \/ cur.admin = "rejected" /\ cur.auto = "fulfilled"

\* C6: the save succeeded, the sender was acquired and both sends succeeded:
\* the response is 200 with the full-success text, and the store holds exactly
\* one record of the request, with the submitted name, email and message and
\* isRead = false.
C6_FullSuccess ==
  Done /\ cur.errors = {} /\ cur.saved = "ok" /\ SenderAcquired /\ BothSent =>
    /\ Accepted(TxtFull)
    /\ OneRecordStored
    /\ \A i \in RecordsOf(cur.id) : HoldsSubmission(store[i], cur.raw)

C6_Witness ==
  /\ Done /\ cur.variant = "routes" /\ cur.saved = "ok" /\ cur.acq = "ok" /\ BothSent
  /\ cur.raw.name.pad = 1 /\ cur.raw.email.upper
  /\ Accepted(TxtFull) /\ OneRecordStored

\* C7: the save succeeded and exactly one of the two sends failed or timed
\* out: routes/contactRoutes.js answers 200 with the partial-success text,
\* which is neither the full-success nor the no-email text, and the store
\* holds exactly one record of the request.
C7_PartialSuccess ==
  Done /\ cur.variant = "routes" /\ cur.saved = "ok" /\ SenderAcquired /\ OneSent =>
    /\ Accepted(TxtPartial)
    /\ cur.resp[1].message \notin {TxtFull, TxtNoEmail}
    /\ OneRecordStored

C7_Witness ==
  /\ Done /\ cur.variant = "routes" /\ cur.saved = "ok"
  /\ cur.admin = "rejected" /\ cur.auto = "fulfilled"
  /\ Accepted(TxtPartial) /\ OneRecordStored

\* C8: the save succeeded and the sender could not be acquired (a failure or
\* the handler's timeout): no send is attempted, the response is 200 with the
\* text telling that email notifications are unavailable, and the store holds
\* exactly one record of the request.
C8_SenderUnavailable ==
  Done /\ cur.variant = "routes" /\ cur.saved = "ok" /\ SenderUnavailable =>
    /\ NoSendAttempted
    /\ Accepted(TxtUnavailable)
    /\ OneRecordStored

C8_Witness ==
  /\ Done /\ cur.variant = "routes" /\ cur.saved = "ok" /\ cur.acq = "timeout"
  /\ NoSendAttempted /\ Accepted(TxtUnavailable) /\ OneRecordStored

\* The routes handler calls createTransporter() in the step that ends its
\* wait for the save.
CallsCreateTransporter ==
  cur.variant = "routes" /\ cur.pc = "save" /\ cur'.pc # "save"

CachedAge == now - lastTransporterCreation
CacheCleared == cachedTransporter = 0 /\ lastTransporterCreation = 0

\* C9: a call of createTransporter that finds a cached handle younger than
\* the 5 minute TTL returns that handle, constructing nothing and leaving the
\* cache as it is; a call that finds the cached handle at the TTL or older
\* starts a fresh construction and verify, and when these succeed the new
\* handle and the time of caching replace the cache entry and its timestamp.
C9_CacheReuseUntilTTL ==
  [][ /\ CallsCreateTransporter /\ cachedTransporter # 0 /\ CachedAge < TRANSPORTER_CACHE_TIME =>
           /\ cur'.acq = "cached" /\ cur'.transporter = cachedTransporter
           /\ acqOp' = acqOp
           /\ cachedTransporter' = cachedTransporter
           /\ lastTransporterCreation' = lastTransporterCreation
      /\ CallsCreateTransporter /\ cachedTransporter # 0 /\ CachedAge >= TRANSPORTER_CACHE_TIME =>
           /\ cur'.acq = "none" /\ cur'.transporter = 0
           /\ acqOp[cur.id] = "none" /\ acqOp'[cur.id] = "pending"
      /\ \A r \in Reqs :
           UtilsCall(r) /\ acqOp[r] = "pending" /\ acqOp'[r] = "verified" =>
             /\ cachedTransporter' = r
             /\ lastTransporterCreation' = now
    ]_vars

C9_Witness ==
  /\ cur.id = 2 /\ cur.variant = "routes" /\ cur.acq = "cached"
  /\ cur.transporter = 1 /\ cachedTransporter = 1
  /\ acqOp[1] = "verified" /\ acqOp[2] = "none"
  /\ CachedAge = TRANSPORTER_CACHE_TIME - 1

\* C10: when an acquisition of createTransporter fails (the credentials are
\* missing, the construction or the verify fails, the 15 s timer fires), the
\* cache entry and its timestamp are cleared and the waiting caller gets the
\* failure and no handle; a call that finds the cache cleared returns no
\* cached handle: it constructs afresh or fails again.
C10_FailureClearsCache ==
  [][ /\ \A r \in Reqs :
           UtilsCall(r) /\ acqOp[r] = "pending" /\ acqOp'[r] = "failed" =>
             /\ CacheCleared'
             /\ Awaited(r, "acquire") => cur'.acq = "failed" /\ cur'.transporter = 0
      /\ CallsCreateTransporter /\ cur'.acq = "failed" => CacheCleared'
      /\ CallsCreateTransporter /\ CacheCleared =>
           /\ cur'.transporter = 0
           /\ acqOp'[cur.id] = "pending" \/ cur'.acq = "failed"
    ]_vars

C10_Witness ==
  /\ acqOp[1] = "verified" /\ acqOp[2] = "failed"
  /\ cur.id = 2 /\ cur.variant = "routes" /\ cur.acq = "failed"
  /\ CacheCleared

\* A send of the request failed or ran into its 10 s timer.
SendFailed == cur.admin = "rejected" \/ cur.auto = "rejected"

\* C11: the cached handle is discarded after a send failure: once a sendMail
\* on the handle a request holds has failed or timed out, the cache does not
\* offer that handle any more, so that the next call of createTransporter
\* does not return it but constructs a new one.
C11_SendFailureDiscardsHandle ==
  Done /\ cur.variant = "routes" /\ SenderAcquired /\ SendFailed =>
    ~(CacheValid /\ cachedTransporter = cur.transporter)

\* An admin request is handled in this step; adm' is its response.
AdminHandled == adm = NoAdmin /\ adm' # NoAdmin

\* C12: the listing and the mark-read are performed only for requests that
\* passed the authentication check: a request without a valid bearer token is
\* refused (401 or 403), receives no stored message and flips no isRead
\* (the endpoints of server.js and of the router behind authMiddleware).
C12_AdminRequiresAuth ==
  [][ AdminHandled /\ adm'.route \in {"server", "router"} /\ adm'.token # "valid" =>
        /\ adm'.status \in {401, 403}
        /\ adm'.list = <<>>
        /\ store' = store
    ]_vars

\* The handler of the admin request ran (it was not refused by the
\* authentication check) and the store answered it: in the model a 500 for
\* an id that casts comes from a failing store only.
AdminRan == AdminHandled /\ ~Refused(adm'.route, adm'.token)
StoreFailed(a) == a.status = 500 /\ (a.op = "mark" => a.path.ok)
Records(s) == { s[i] : i \in 1..Len(s) }
Marked(s, id) ==
  [i \in 1..Len(s) |-> IF s[i].id = id THEN [s[i] EXCEPT !.isRead = TRUE] ELSE s[i]]

\* C13: mark-read on an id that was never created answers 404 and changes no
\* record; mark-read on an existing id answers 200, sets isRead on exactly
\* that record and leaves every other record as it was; a listing returns the
\* records as the store holds them, so it shows the flag.
C13_MarkReadFrame ==
  [][ /\ AdminRan /\ adm'.op = "mark" /\ ~StoreFailed(adm') =>
           IF adm'.path.ok /\ Found(adm'.path.id)
           THEN adm'.status = 200 /\ store' = Marked(store, adm'.path.id)
           ELSE adm'.status = 404 /\ store' = store
      /\ AdminRan /\ adm'.op = "list" /\ adm'.status = 200 =>
           Records(adm'.list) \subseteq Records(store)
    ]_vars

NonIncreasing(l) == \A k \in 1..(Len(l) - 1) : l[k].createdAt >= l[k + 1].createdAt

\* C14: the listing returns stored records newest first by createdAt, and
\* never more than the 50 most recent ones, however many the store holds.
C14_ListNewestFirstLimited ==
  adm.op = "list" /\ adm.status = 200 =>
    /\ NonIncreasing(adm.list)
    /\ Len(adm.list) = (IF Len(store) > 50 THEN 50 ELSE Len(store))
    /\ Records(adm.list) \subseteq Records(store)
    /\ \A d \in Records(store) \ Records(adm.list), e \in Records(adm.list) :
         d.createdAt <= e.createdAt

Persisted(r) == saveOp[r].st = "stored"

\* C15: two requests submitting the identical valid payload, the save
\* succeeding for both, leave two records in the store, with distinct ids and
\* the same name, email and message: nothing is deduplicated. (Under
\* SpecRoutes every request submits RouteBody.)
C15_NoDeduplication ==
  \A r1, r2 \in Reqs :
    r1 # r2 /\ Persisted(r1) /\ Persisted(r2) =>
      \E i, j \in 1..Len(store) :
        /\ i # j
        /\ store[i].id = r1 /\ store[j].id = r2
        /\ store[i].id # store[j].id
        /\ SamePayload(store[i], store[j])
        /\ Cardinality(RecordsOf(r1)) = 1 /\ Cardinality(RecordsOf(r2)) = 1

C15_Witness ==
  /\ Persisted(1) /\ Persisted(2)
  /\ Len(store) = 2 /\ store[1].id # store[2].id
  /\ SamePayload(store[1], store[2])
  /\ cur.id = 2 /\ cur.raw = RouteBody /\ Done

\* The messages of the errors the handlers catch, and the fixed texts their
\* top-level catch may answer with.
ThrownTexts == {TxtDbConnect, TxtNoCreds, TxtStoreError, TxtMailError, TxtTypeError}
GenericTexts == {TxtServerFailed, TxtInternal}

\* A fault reached the outer catch of the handler: of the requests that
\* passed validation, those that did not end in the handler's own answer.
\* (routes/contactRoutes.js catches every failure at its stage.)
CaughtAtTop ==
  Done /\ cur.errors = {} /\ cur.variant # "routes" /\ ~Accepted(TxtFull)

\* C16: when a fault reaches the top-level catch of a submission handler the
\* response has a 5xx status and a fixed generic text, never the message of
\* the caught error (api/contact.js and server.js).
C16_GenericServerError ==
  CaughtAtTop /\ cur.variant \in {"api", "server"} =>
    /\ Len(cur.resp) = 1
    /\ cur.resp[1].status >= 500
    /\ cur.resp[1].error \in GenericTexts
    /\ cur.resp[1].error \notin ThrownTexts
    /\ cur.resp[1].message \notin ThrownTexts

Frozen(d, e) ==
  /\ d.id = e.id /\ d.createdAt = e.createdAt
  /\ SamePayload(d, e)

RecordOf(id) == store[CHOOSE i \in 1..Len(store) : store[i].id = id]

\* C17: once a record is stored, no submit, listing or mark-read changes its
\* name, email, message or createdAt, and none removes it; mark-read changes
\* nothing but isRead.
C17_RecordImmutable ==
  [][ /\ Len(store') >= Len(store)
      /\ \A i \in 1..Len(store) : Frozen(store[i], store'[i])
      /\ AdminHandled => Len(store') = Len(store)
    ]_vars

C17_Witness ==
  /\ adm.op = "list" /\ adm.status = 200
  /\ Found(1) /\ Found(2)
  /\ RecordOf(1).isRead /\ RecordOf(1) \in Records(adm.list)
  /\ Frozen(RecordOf(1), SchemaCast(RouteBody, 1, StartTime))
  /\ RecordOf(2).createdAt > StartTime

\* C18: a record is stored with isRead = false and keeps it until a
\* mark-read names its id; once isRead is true no operation resets it.
C18_IsReadMonotone ==
  [][ \A i \in 1..Len(store') :
        IF i > Len(store)
        THEN ~store'[i].isRead
        ELSE /\ store[i].isRead => store'[i].isRead
             /\ ~store[i].isRead /\ store'[i].isRead =>
                  /\ AdminHandled /\ adm'.op = "mark"
                  /\ adm'.path.ok /\ adm'.path.id = store[i].id
    ]_vars

C18_Witness ==
  /\ adm.op = "mark" /\ adm.status = 200 /\ adm.path.id = BacklogId(MaxBacklog)
  /\ Found(1) /\ Found(2)
  /\ RecordOf(1).isRead /\ ~RecordOf(2).isRead
  /\ RecordOf(BacklogId(MaxBacklog)).isRead

\* The fields of a submission that break the bounds of the data model.
Offending(raw) ==
  { f \in Fields :
      \/ f = "name" /\ (raw.name.len < 2 \/ raw.name.len > 50)
      \/ f = "email" /\ ~raw.email.ok
      \/ f = "message" /\ (raw.message.len < 10 \/ raw.message.len > 1000) }

\* The fields a 400 response tells of: those of its details, and the one its
\* error text is about.
Mentioned(r) ==
  r.details \cup
    { f \in Fields :
        \/ f = "name" /\ r.error = TxtNameShort
        \/ f = "email" /\ r.error = TxtEmailBad
        \/ f = "message" /\ r.error = TxtMsgShort }

\* C19: a 400 response for failed validation tells of every offending field
\* at once, one entry per bad field, and not only of the first one
\* (routes/contactRoutes.js and api/contact.js).
C19_AllViolationsReported ==
  Done /\ cur.variant \in {"routes", "api"} /\ Status(400) =>
    Mentioned(cur.resp[1]) = Offending(cur.raw)

\* C20: in the pipeline of routes/contactRoutes.js every valid request is
\* answered in the end, also when save(), createTransporter() and the
\* sendMail calls never complete: a step is given up when its timer fires and
\* counts as failed, and the handler goes on to its 200 response.
C20_TimersGuaranteeResponse ==
  \A r \in Reqs : (cur.id = r) ~> (cur.id = r /\ Done /\ Status(200))

C20_Witness ==
  /\ Done /\ Status(200) /\ cur.variant = "routes" /\ cur.errors = {}
  /\ cur.saved = "timeout" /\ saveOp[cur.id].st = "pending"
  /\ cur.acq = "timeout" /\ acqOp[cur.id] = "pending"
  /\ NoSendAttempted

\* C21: createTransporter calls that race on an empty or expired cache: each
\* one that succeeds overwrites the cache with its own handle and its own
\* timestamp, so that the last to succeed wins; one that fails does not
\* remove a handle another of them has installed meanwhile. (A construction
\* starts on an empty or expired cache only, so a fresh entry found at its
\* end was installed by a concurrent one.)
C21_RaceLastWriterWins ==
  [][ \A r \in Reqs :
        UtilsCall(r) /\ acqOp[r] = "pending" =>
          /\ acqOp'[r] = "verified" =>
               cachedTransporter' = r /\ lastTransporterCreation' = now
          /\ acqOp'[r] = "failed" /\ CacheValid =>
               /\ cachedTransporter' = cachedTransporter
               /\ lastTransporterCreation' = lastTransporterCreation
    ]_vars

\* C22: a request makes at most one save, at most one call of
\* createTransporter, at most one admin send and at most one auto-reply send:
\* nothing is tried a second time, and nothing is sent when the sender could
\* not be acquired or was not asked for.
C22_AtMostOneAttempt ==
  Handled =>
    /\ cur.nSave <= 1 /\ cur.nAcq <= 1 /\ cur.nAdmin <= 1 /\ cur.nAuto <= 1
    /\ SenderUnavailable \/ cur.acq = "none" => cur.nAdmin = 0 /\ cur.nAuto = 0
    /\ cur.errors # {} => cur.nSave = 0 /\ cur.nAcq = 0

C22_Witness ==
  /\ Done /\ cur.variant = "routes" /\ cur.saved = "rejected"
  /\ cur.acq = "ok" /\ cur.admin = "rejected" /\ cur.auto = "rejected"
  /\ cur.nSave = 1 /\ cur.nAcq = 1 /\ cur.nAdmin = 1 /\ cur.nAuto = 1

\* C23, as stated: the store holds a record of a request exactly when the
\* handler classified its save as succeeded; a save given up at the 5 s timer
\* never stores the record afterwards.
C23_RecordIffClassifiedSaved ==
  Handled /\ cur.variant = "routes" /\ cur.saved # "none" =>
    (RecordsOf(cur.id) # {} <=> cur.saved = "ok")

\* C23, amended: the store holds a record of a request exactly when its
\* save() has resolved, and then one record. A save classified as succeeded
\* has resolved; a save that rejected never stores; a save given up at the
\* 5 s timer is not cancelled: it is still pending, or has settled since, and
\* when it resolves the record is stored although the handler took the
\* storage-failure path.
C23_RecordIffSaveResolved ==
  /\ \A r \in Reqs :
       Cardinality(RecordsOf(r)) = (IF saveOp[r].st = "stored" THEN 1 ELSE 0)
  /\ Handled /\ cur.saved = "ok" => saveOp[cur.id].st = "stored"
  /\ Handled /\ cur.saved = "rejected" =>
       saveOp[cur.id].st = "rejected" /\ RecordsOf(cur.id) = {}
  /\ Handled /\ cur.saved = "timeout" =>
       /\ cur.variant = "routes"
       /\ saveOp[cur.id].st \in {"pending", "stored", "rejected"}
       /\ RecordsOf(cur.id) # {} <=> saveOp[cur.id].st = "stored"

C23_Witness ==
  /\ Done /\ cur.variant = "routes" /\ cur.saved = "timeout"
  /\ saveOp[cur.id].st = "stored" /\ Cardinality(RecordsOf(cur.id)) = 1
  /\ Status(200)

\* C24: the handler of routes/contactRoutes.js sends exactly one response per
\* request on every path: none while it is running, one when it has returned
\* (400 for a validation failure, 200 otherwise), and nothing that settles
\* after its return sends another.
C24_ExactlyOneResponse ==
  Handled /\ cur.variant = "routes" =>
    /\ Len(cur.resp) = (IF Done THEN 1 ELSE 0)
    /\ Done => cur.resp[1].status = (IF cur.errors # {} THEN 400 ELSE 200)

C24_Witness ==
  /\ Done /\ cur.variant = "routes" /\ Len(cur.resp) = 1
  /\ cur.acq = "timeout" /\ acqOp[cur.id] = "failed"
  /\ cur.saved = "timeout" /\ saveOp[cur.id].st = "rejected"

====
